---- MODULE Spec2Model ----
(***************************************************************************)
(* A model of the libvirt_vm collector (collectors/0/libvirt_vm.py): the   *)
(* sampling loop of main, get_pids, process_domain and the counter         *)
(* samplers it calls, followed step by step.  The hypervisor, the process  *)
(* table and the ps tool are the environment; what they answer is drawn    *)
(* with \E when the code asks.                                             *)
(***************************************************************************)
EXTENDS Integers, Sequences, FiniteSets, TLC

(* ------------------------------ bounds -------------------------------- *)

\* number of domains the hypervisor knows
NumDomains == 2
\* number of passes of the while-True loop that are followed
MaxCycles == 2
\* ticks of the clock (it also drives the hypervisor's counters) in a pass
MaxNow == 3
\* longest process listing the ps tool prints
MaxPsLines == 2

(* ------------------------- program constants -------------------------- *)

ERROR_CODE_DONT_RETRY == 13

\* DATA_RETRIEVAL_WAIT = 0.3 seconds, kept as the fraction WaitNum / WaitDen
WaitNum == 3
WaitDen == 10

TAG_DEPLOY_ID == "deploy_id"
TAG_TYPE == "type"

\* FIELDS, without the common prefix "libvirt.vm."
FIELDS ==
  [net_rx |-> "network.rx", net_tx |-> "network.tx",
   net_current_rx |-> "network.current.rx",
   net_current_tx |-> "network.current.tx",
   cpu_load |-> "cpu.load", cpu_time |-> "cpu.time",
   disk_read_reqs |-> "disk.read.requests",
   disk_read_bytes |-> "disk.read.bytes",
   disk_write_reqs |-> "disk.write.requests",
   disk_write_bytes |-> "disk.write.bytes",
   disk_total_reqs |-> "disk.total.requests",
   disk_current_read_reqs |-> "disk.current.read.requests",
   disk_current_read_bytes |-> "disk.current.read.bytes",
   disk_current_write_reqs |-> "disk.current.write.requests",
   disk_current_write_bytes |-> "disk.current.write.bytes",
   disk_current_total_reqs |-> "disk.current.total.requests",
   disk_total_bytes |-> "disk.total.bytes",
   disk_current_total_bytes |-> "disk.current.total.bytes",
   memory |-> "memory", count |-> "count",
   max_memory |-> "max.memory", max_vcpus |-> "max.vcpus"]

(* ----------------------------- numbers -------------------------------- *)

\* a Python number: an int n is n/1, a float quotient keeps its fraction
Rat(n, d) == [num |-> n, den |-> d]
IntVal(n) == Rat(n, 1)
RatAdd(a, b) == Rat(a.num * b.den + b.num * a.den, a.den * b.den)
RatEq(a, b) == a.num * b.den = b.num * a.den

\* t[i] of a Python tuple or list (0-based)
At(t, i) == t[i + 1]

Min(a, b) == IF a < b THEN a ELSE b

(* ------------------- the hypervisor and the host ---------------------- *)

Domains == 1..NumDomains

\* domain.name(), domain.UUIDString()
DomainName(d) == 500 + d
UUIDString(d) == 100 + d
UUIDs == {UUIDString(d) : d \in Domains}
NoUuid == 0

\* the pid of the qemu process that runs domain d, and a pid of another
\* process whose command line carries a domain's uuid as well
QemuPid(d) == 10 + d
OtherPid == 99

\* the domain's descriptor (XMLDesc): every domain has two interfaces and two
\* disks; a descriptor may lack the domain type or the last device's target dev
NumIfaces == 2
NumDisks == 2
XmlKinds == {"ok", "no_type", "no_iface_dev", "no_disk_dev"}
DomainType(d) == IF d % 2 = 1 THEN "kvm" ELSE "qemu"
XMLDesc(d, kind) ==
  [type |-> IF kind = "no_type" THEN "" ELSE DomainType(d),
   interfaces |-> [i \in 1..NumIfaces |->
                     IF kind = "no_iface_dev" /\ i = NumIfaces THEN 0 ELSE i],
   disks |-> [k \in 1..NumDisks |->
                     IF kind = "no_disk_dev" /\ k = NumDisks THEN 0 ELSE k]]

\* cumulative counters of the hypervisor at time t:
\* virDomainInterfaceStats = (rx_bytes, rx_packets, rx_errs, rx_drop,
\*                            tx_bytes, tx_packets, tx_errs, tx_drop)
interfaceStats(d, i, t) ==
  << 1000 * (d - 1) + 100 * i + 5 * (i + 1) * (t - 1), 7, 0, 0,
     1000 * (d - 1) + 10 * i + (3 * i - 1) * (t - 1), 9, 0, 0 >>

\* virDomainBlockStats = (rd_req, rd_bytes, wr_req, wr_bytes, errs)
blockStats(d, k, t) ==
  << 1000 * (d - 1) + 3 * k + t,
     1000 * (d - 1) + 40 * k + 8 * t,
     1000 * (d - 1) + 5 * k + 2 * t,
     1000 * (d - 1) + 70 * k + 16 * t, 0 >>

\* domain.memoryStats(): the hypervisor's "actual" and the host's "rss";
\* a report may come without "rss" (rss = -1 stands for the missing key)
memoryStats(d, withRss) ==
  [actual |-> 2000 + d,
   rss |-> IF ~withRss THEN -1 ELSE IF d % 2 = 1 THEN 1500 + d ELSE 2500 + d]
maxMemory(d) == 4000 + d
maxVcpus(d) == d

\* psutil: Process(pid).cpu_times() = (user, system, ...) and cpu_percent
cpu_times(p, t) == << 100 * p, t >>
cpu_percent(p) == 3 * p

(* -------------------------- the ps listing ---------------------------- *)

\* one line of `ps -ewwo pid,command`: its leading token (an integer or
\* not) and the uuid that follows "-uuid " in the command, if any
PsLine(isInt, tok, uuid) == [isInt |-> isInt, tok |-> tok, uuid |-> uuid]
PsLines ==
  {PsLine(TRUE, QemuPid(d), UUIDString(d)) : d \in Domains}
    \cup {PsLine(TRUE, OtherPid, UUIDString(1)),
          PsLine(TRUE, 1, NoUuid),
          PsLine(FALSE, 0, UUIDString(1))}
PsOutputs == UNION {[1..n -> PsLines] : n \in 0..MaxPsLines}

\* what a listing says: the uuids of its lines, each with the leading token
\* of the last line that carries it
ListingPids(text) ==
  LET WithUuid == {i \in 1..Len(text) : text[i].uuid # NoUuid}
      LastOf(u) == CHOOSE i \in WithUuid :
                     text[i].uuid = u /\ \A j \in WithUuid :
                                           text[j].uuid = u => j <= i
  IN [u \in {text[i].uuid : i \in WithUuid} |-> text[LastOf(u)].tok]

(* ------------------------------ state --------------------------------- *)

VARIABLES
  pc,          \* where main is
  mods,        \* which of the modules libvirt, bs4, psutil were imported
  conn,        \* the hypervisor connection: "unset", "conn" or "none"
  cycle,       \* passes of the loop that have finished
  now,         \* time.time(); the hypervisor's counters grow with it
  domains,     \* main: the shuffled domain list
  output,      \* get_pids: the captured stdout of ps
  err,         \* get_pids: the stderr that communicate() handed back
  pids,        \* main: the dict uuid -> pid
  idx,         \* main: position of the for loop in domains
  count,       \* main: count
  pid,         \* process_domain: pid
  vm,          \* process_domain: the dict vm
  xml,         \* process_domain: the parsed descriptor
  first_data,  \* get_network_traffic / get_disk_io: first_data
  second_data, \* get_network_traffic / get_disk_io: second_data
  out,         \* lines printed to stdout in this pass
  flushes,     \* calls of sys.stdout.flush()
  retval,      \* what main returned (0: it has not returned)
  uncaught,    \* the exception that left main uncaught ("": none)
  psStderr,    \* observer: ps wrote to its stderr in this pass
  answers,     \* observer: what isActive() and pid_exists() answered
  outcome,     \* observer: how process_domain ended for each domain
  sampled,     \* observer: the reads made for each domain in this pass
  samples,     \* observer: the hypervisor's answers to the snapshots
  trace,       \* observer: the steps of main in this pass
  seq,         \* libvirt.py, chunker: seq
  size,        \* libvirt.py, chunker: size
  pos,         \* libvirt.py, chunker: pos, the generator's place in xrange
  batch,       \* libvirt.py, main: batch
  vms,         \* libvirt.py, main: the dict vms of the batch
  yielded,     \* observer: the batches the generator has handed out
  passed,      \* observer: the domains of the batch whose reads succeeded
  listed,      \* observer: what listAllDomains() answered last
  resolved,    \* observer: the uuids and pids of the last ps listing
  renewed      \* observer: the uuids whose pid is not that of the last pass

vars == << pc, mods, conn, cycle, now, domains, output, err, pids, idx, count,
           pid, vm, xml, first_data, second_data, out, flushes, retval,
           uncaught, psStderr, answers, outcome, sampled, samples, trace,
           seq, size, pos, batch, vms, yielded, passed,
           listed, resolved, renewed >>

\* what the hypervisor and ps answered in this pass
fresh == << listed, resolved, renewed >>

\* the state of the batch variant (collectors/0/libvirt.py), which the
\* libvirt_vm collector never touches
batching == << seq, size, pos, batch, vms, yielded, passed >>

\* the locals of process_domain and of the functions it calls
locals == << pid, vm, xml, first_data, second_data >>
\* the locals of get_pids
pslocals == << output, err >>
\* what is fixed once main is in the loop
startup == << mods, conn >>
\* how main ended
ending == << retval, uncaught >>
\* the standard output
io == << out, flushes >>
\* the observers of one pass
observers == << psStderr, answers, outcome, sampled, samples, trace >>

EmptyDict == << >>
NoXml == [type |-> "", interfaces |-> << >>, disks |-> << >>]

\* a domain that process_domain has not been called for in this pass
NotAsked == [active |-> -1, exists |-> TRUE]

\* a module that failed to import is None
ModChoices ==
  {[libvirt |-> TRUE, bs4 |-> TRUE, psutil |-> TRUE],
   [libvirt |-> FALSE, bs4 |-> TRUE, psutil |-> TRUE],
   [libvirt |-> TRUE, bs4 |-> FALSE, psutil |-> TRUE],
   [libvirt |-> TRUE, bs4 |-> TRUE, psutil |-> FALSE]}

\* nothing of the libvirt_vm collector has run, but for pc and mods
Unstarted ==
  /\ conn = "unset"
  /\ cycle = 0
  /\ now = 0
  /\ domains = << >>
  /\ output = << >>
  /\ err = ""
  /\ pids = EmptyDict
  /\ idx = 0
  /\ count = 0
  /\ pid = 0
  /\ vm = EmptyDict
  /\ xml = NoXml
  /\ first_data = << >>
  /\ second_data = << >>
  /\ out = << >>
  /\ flushes = 0
  /\ retval = 0
  /\ uncaught = ""
  /\ psStderr = FALSE
  /\ answers = [d \in Domains |-> NotAsked]
  /\ outcome = [d \in Domains |-> "none"]
  /\ sampled = [d \in Domains |-> {}]
  /\ samples = << >>
  /\ trace = << >>
  /\ listed = << >>
  /\ resolved = EmptyDict
  /\ renewed = {}

\* nothing of the batch variant has run, but for seq and size
NoBatch ==
  /\ pos = 0
  /\ batch = << >>
  /\ vms = EmptyDict
  /\ yielded = << >>
  /\ passed = {}

Init ==
  /\ pc = "check_imports"
  /\ mods \in ModChoices
  /\ Unstarted
  /\ seq = << >>
  /\ size = 0
  /\ NoBatch

(* ------------------------- how main can end --------------------------- *)

\* except LibvirtVmProcessingError: return ERROR_CODE_DONT_RETRY
ReturnDontRetry ==
  /\ pc' = "returned"
  /\ retval' = ERROR_CODE_DONT_RETRY
  /\ UNCHANGED uncaught

\* any other exception leaves main; the interpreter prints the traceback
Uncaught(exc) ==
  /\ pc' = "raised"
  /\ uncaught' = exc
  /\ UNCHANGED retval

(* ------------------------------ startup ------------------------------- *)

\* check_imports without its last test
check_imports_without_psutil(m) == ~m.libvirt \/ ~m.bs4

\* check_imports raises when a module is None
check_imports(m) == ~m.libvirt \/ ~m.bs4 \/ ~m.psutil

CheckImports ==
  /\ pc = "check_imports"
  /\ UNCHANGED batching
  /\ UNCHANGED fresh
  /\ IF check_imports(mods)
       THEN ReturnDontRetry
       ELSE pc' = "open" /\ UNCHANGED ending
  /\ UNCHANGED << startup, cycle, now, domains, pslocals, pids, idx, count,
                  locals, out, flushes, psStderr, answers, outcome, sampled,
                  samples, trace >>

\* conn = libvirt.openReadOnly(LIBVIRT_URI); if conn is None: return 13
OpenReadOnly ==
  /\ pc = "open"
  /\ UNCHANGED batching
  /\ UNCHANGED fresh
  /\ \E answer \in {"conn", "none", "libvirtError"} :
       IF answer = "libvirtError"
         THEN Uncaught("libvirtError") /\ UNCHANGED conn
         ELSE /\ conn' = answer
              /\ IF answer = "none"
                   THEN ReturnDontRetry
                   ELSE pc' = "list" /\ UNCHANGED ending
  /\ UNCHANGED << mods, cycle, now, domains, pslocals, pids, idx, count,
                  locals, out, flushes, psStderr, answers, outcome, sampled,
                  samples, trace >>

(* ------------------------ the start of a pass ------------------------- *)

\* the lists conn.listAllDomains() can answer, in every order
\* random.shuffle can leave them in
DomainLists ==
  {l \in UNION {[1..n -> Domains] : n \in 0..NumDomains} :
     \A i, j \in 1..Len(l) : i # j => l[i] # l[j]}

\* the pass goes on with the next domain, or with the count line after the last
NextDomain(i, list) == IF i <= Len(list) THEN "process_domain" ELSE "count"

\* domains = conn.listAllDomains(); random.shuffle(domains)
ListAllDomains ==
  /\ pc = "list"
  /\ UNCHANGED batching
  /\ cycle < MaxCycles
  /\ \/ /\ \E l \in DomainLists : domains' = l /\ listed' = l
        /\ pc' = "get_pids"
        /\ trace' = << "enumerate" >>
        /\ UNCHANGED ending
     \/ /\ Uncaught("libvirtError")
        /\ UNCHANGED << domains, trace, listed >>
  /\ UNCHANGED << resolved, renewed >>
  /\ UNCHANGED << startup, cycle, now, pslocals, pids, idx, count, locals, io,
                  psStderr, answers, outcome, sampled, samples >>

\* subprocess.Popen(..., stdout=PIPE).communicate(): a stream that was not
\* piped comes back as None (falsy, like the empty string)
communicate(stdoutPiped, stderrPiped, stdoutText, wroteStderr) ==
  [output |-> IF stdoutPiped THEN stdoutText ELSE << >>,
   err |-> IF stderrPiped /\ wroteStderr THEN "stderr" ELSE ""]

\* p1 = subprocess.Popen(["ps", "-ewwo", "pid,command"], stdout=subprocess.PIPE)
Popen_ps(stdoutText, wroteStderr) ==
  communicate(TRUE, FALSE, stdoutText, wroteStderr)

\* the for loop of get_pids in which the first line of a uuid is kept
RECURSIVE parse_lines_first_wins(_, _, _)
parse_lines_first_wins(lines, i, acc) ==
  IF i > Len(lines) THEN [raised |-> FALSE, pids |-> acc]
  ELSE IF lines[i].uuid = NoUuid THEN parse_lines_first_wins(lines, i + 1, acc)
  ELSE IF ~lines[i].isInt THEN [raised |-> TRUE, pids |-> acc]
  ELSE parse_lines_first_wins(lines, i + 1,
                              acc @@ (lines[i].uuid :> lines[i].tok))

\* the for loop of get_pids over the lines from line i on: a line with a
\* uuid puts int(leading token) under that uuid; a leading token that is
\* no integer raises
RECURSIVE parse_lines(_, _, _)
parse_lines(lines, i, acc) ==
  IF i > Len(lines) THEN [raised |-> FALSE, pids |-> acc]
  ELSE IF lines[i].uuid = NoUuid THEN parse_lines(lines, i + 1, acc)
  ELSE IF ~lines[i].isInt THEN [raised |-> TRUE, pids |-> acc]
  ELSE parse_lines(lines, i + 1, (lines[i].uuid :> lines[i].tok) @@ acc)

\* main returns out of get_pids: its locals and those of get_pids are gone
Unwound ==
  /\ domains' = << >>
  /\ pids' = EmptyDict
  /\ count' = 0
  /\ output' = << >>
  /\ err' = ""

\* get_pids behind a cache: a dict that is filled already is kept
GetPids_cached ==
  /\ pc = "get_pids"
  /\ UNCHANGED batching
  /\ \E text \in PsOutputs, wrote \in BOOLEAN :
       LET r == Popen_ps(text, wrote)
           parsed == parse_lines(r.output, 1, EmptyDict)
       IN /\ psStderr' = wrote
          /\ IF r.err # ""
               THEN /\ ReturnDontRetry
                    /\ Unwound
                    /\ UNCHANGED << trace, resolved, renewed >>
               ELSE /\ trace' = Append(trace, "ps")
                    /\ IF parsed.raised
                         THEN /\ ReturnDontRetry
                              /\ Unwound
                              /\ UNCHANGED << resolved, renewed >>
                         ELSE /\ output' = r.output
                              /\ err' = r.err
                              /\ pids' = IF pids # EmptyDict THEN pids ELSE parsed.pids
                              /\ resolved' = ListingPids(text)
                              /\ renewed' =
                                   {u \in DOMAIN resolved
                                            \cap DOMAIN ListingPids(text) :
                                      resolved[u] # ListingPids(text)[u]}
                              /\ pc' = "get_pids_return"
                              /\ UNCHANGED << ending, domains, count >>
  /\ UNCHANGED << startup, cycle, now, idx, locals, io, answers, outcome,
                  sampled, samples, listed >>

\* get_pids up to its return statement: run ps; if err: raise; fill the
\* dict pids from the lines of output, which raises at a leading token
\* that is no integer
GetPids ==
  /\ pc = "get_pids"
  /\ UNCHANGED batching
  /\ \E text \in PsOutputs, wrote \in BOOLEAN :
       LET r == Popen_ps(text, wrote)
           parsed == parse_lines(r.output, 1, EmptyDict)
       IN /\ psStderr' = wrote
          /\ IF r.err # ""
               THEN /\ ReturnDontRetry
                    /\ Unwound
                    /\ UNCHANGED << trace, resolved, renewed >>
               ELSE /\ trace' = Append(trace, "ps")
                    /\ IF parsed.raised
                         THEN /\ ReturnDontRetry
                              /\ Unwound
                              /\ UNCHANGED << resolved, renewed >>
                         ELSE /\ output' = r.output
                              /\ err' = r.err
                              /\ pids' = parsed.pids
                              /\ resolved' = ListingPids(text)
                              /\ renewed' =
                                   {u \in DOMAIN resolved
                                            \cap DOMAIN ListingPids(text) :
                                      resolved[u] # ListingPids(text)[u]}
                              /\ pc' = "get_pids_return"
                              /\ UNCHANGED << ending, domains, count >>
  /\ UNCHANGED << startup, cycle, now, idx, locals, io, answers, outcome,
                  sampled, samples, listed >>

\* return pids: the locals of get_pids are gone; in main, count = 0 and the
\* for loop starts
GetPidsReturn ==
  /\ pc = "get_pids_return"
  /\ UNCHANGED batching
  /\ UNCHANGED fresh
  /\ output' = << >>
  /\ err' = ""
  /\ psStderr' = FALSE
  /\ count' = 0
  /\ idx' = 1
  /\ pc' = NextDomain(1, domains)
  /\ UNCHANGED << startup, cycle, now, domains, pids, locals, io, ending,
                  answers, outcome, sampled, samples, trace >>

(* -------------------------- process_domain ---------------------------- *)

\* the domain the for loop of main is at
Domain == domains[idx]

\* a lookup by position: whatever the first entry of the dict holds
dict_get_first(dict, key) ==
  IF DOMAIN dict = {} THEN 0
  ELSE dict[CHOOSE k \in DOMAIN dict : \A k2 \in DOMAIN dict : k <= k2]

\* pids.get(uuid): None (0 here, as falsy as None) when the key is missing
dict_get(dict, key) == IF key \in DOMAIN dict THEN dict[key] ELSE 0

\* the checks without the one of isActive()
skip_reason_active_unchecked(active, p, exists) ==
  IF p = 0 THEN "no_pid"
  ELSE IF ~exists THEN "pid_gone"
  ELSE "none"

\* the checks without the one of a missing pid
skip_reason_pid_unchecked(active, p, exists) ==
  IF active # 1 THEN "inactive"
  ELSE IF ~exists THEN "pid_gone"
  ELSE "none"

\* the checks that open process_domain, in the order of the code
skip_reason(active, p, exists) ==
  IF active # 1 THEN "inactive"
  ELSE IF p = 0 THEN "no_pid"
  ELSE IF ~exists THEN "pid_gone"
  ELSE "none"

\* a skip that is raised as LibvirtVmProcessingError instead
ReturnFalse_fatal(why) ==
  /\ outcome' = [outcome EXCEPT ![Domain] = why]
  /\ ReturnDontRetry
  /\ UNCHANGED << idx, pid, vm, xml, first_data, second_data, count, out >>

\* a skipped domain that is counted all the same
ReturnFalse_counted(why) ==
  /\ outcome' = [outcome EXCEPT ![Domain] = why]
  /\ idx' = idx + 1
  /\ pc' = NextDomain(idx + 1, domains)
  /\ pid' = 0
  /\ vm' = EmptyDict
  /\ xml' = NoXml
  /\ first_data' = << >>
  /\ second_data' = << >>
  /\ count' = count + 1
  /\ UNCHANGED << out, ending >>

\* return False: main goes on with the next domain, count stays
ReturnFalse(why) ==
  /\ outcome' = [outcome EXCEPT ![Domain] = why]
  /\ idx' = idx + 1
  /\ pc' = NextDomain(idx + 1, domains)
  /\ pid' = 0
  /\ vm' = EmptyDict
  /\ xml' = NoXml
  /\ first_data' = << >>
  /\ second_data' = << >>
  /\ UNCHANGED << count, out, ending >>

\* the clock: the waits within a pass (DATA_RETRIEVAL_WAIT and the interval
\* of cpu_percent) move it one tick each, up to MaxNow ticks in a pass; the
\* long sleep between two passes (INTERVAL) moves it to the next span
Span == MaxNow + 1
Tick(t) == IF t % Span < MaxNow THEN t + 1 ELSE t
Wake(t) == ((t \div Span) + 1) * Span

\* process_domain(domain, pids.get(domain.UUIDString())): the three skips
ProcessDomain ==
  /\ pc = "process_domain"
  /\ UNCHANGED batching
  /\ UNCHANGED fresh
  /\ trace' = Append(trace, "domain")
  /\ samples' = << >>
  /\ \E active \in {0, 1}, exists \in BOOLEAN :
       LET p == dict_get(pids, UUIDString(Domain))
           why == skip_reason(active, p, exists)
       IN /\ exists \/ (active = 1 /\ UUIDString(Domain) \in DOMAIN pids)
          /\ answers' = [answers EXCEPT
                           ![Domain] = [active |-> active, exists |-> exists]]
          /\ IF why # "none"
            THEN ReturnFalse(why)
            ELSE /\ pid' = p
                 /\ vm' = EmptyDict
                 /\ pc' = "get_cpu_time"
                 /\ UNCHANGED << idx, count, xml, first_data, second_data,
                                 out, ending, outcome >>
  /\ UNCHANGED << startup, cycle, now, domains, pslocals, pids, flushes,
                  psStderr, sampled >>

Read(what) == [sampled EXCEPT ![Domain] = @ \cup {what}]

\* get_cpu_time(pid): user + system time of the process
get_cpu_time(p, t) == At(cpu_times(p, t), 0) + At(cpu_times(p, t), 1)

\* vm[FIELDS["cpu_time"]] = get_cpu_time(pid); psutil.Process raises
\* NoSuchProcess for a pid that is gone, and nothing catches it
GetCpuTime ==
  /\ pc = "get_cpu_time"
  /\ UNCHANGED batching
  /\ UNCHANGED fresh
  /\ sampled' = Read("cpu_time")
  /\ \/ /\ vm' = (FIELDS.cpu_time :> IntVal(get_cpu_time(pid, now))) @@ vm
        /\ pc' = "get_cpu_load"
        /\ UNCHANGED ending
     \/ /\ Uncaught("NoSuchProcess")
        /\ UNCHANGED vm
  /\ UNCHANGED << startup, cycle, now, domains, pslocals, pids, idx, count,
                  pid, xml, first_data, second_data, io, psStderr, answers,
                  outcome,
                  samples, trace >>

\* vm[FIELDS["cpu_load"]] = get_cpu_load(pid), which blocks for
\* DATA_RETRIEVAL_WAIT
GetCpuLoad ==
  /\ pc = "get_cpu_load"
  /\ UNCHANGED batching
  /\ UNCHANGED fresh
  /\ sampled' = Read("cpu_load")
  /\ \/ /\ vm' = (FIELDS.cpu_load :> IntVal(cpu_percent(pid))) @@ vm
        /\ now' = Tick(now)
        /\ pc' = "get_memory"
        /\ UNCHANGED ending
     \/ /\ Uncaught("NoSuchProcess")
        /\ UNCHANGED << vm, now >>
  /\ UNCHANGED << startup, cycle, domains, pslocals, pids, idx, count,
                  pid, xml, first_data, second_data, io, psStderr, answers,
                  outcome,
                  samples, trace >>

\* get_memory(domain): max([mem["actual"], mem["rss"]])
get_memory(mem) == IF mem.actual >= mem.rss THEN mem.actual ELSE mem.rss

\* vm[memory] = get_memory(domain); vm[max_memory] = domain.maxMemory();
\* vm[max_vcpus] = domain.maxVcpus(): a libvirtError of the hypervisor and
\* the KeyError of a report without "rss" are caught nowhere
GetMemory ==
  /\ pc = "get_memory"
  /\ UNCHANGED batching
  /\ UNCHANGED fresh
  /\ sampled' = Read("memory")
  /\ \E answer \in {"ok", "no_rss", "libvirtError"} :
       IF answer = "ok"
         THEN /\ vm' = (FIELDS.memory :>
                          IntVal(get_memory(memoryStats(Domain, TRUE))))
                       @@ (FIELDS.max_memory :> IntVal(maxMemory(Domain)))
                       @@ (FIELDS.max_vcpus :> IntVal(maxVcpus(Domain))) @@ vm
              /\ pc' = "XMLDesc"
              /\ UNCHANGED ending
         ELSE /\ Uncaught(IF answer = "no_rss" THEN "KeyError" ELSE answer)
              /\ UNCHANGED vm
  /\ UNCHANGED << startup, cycle, now, domains, pslocals, pids, idx, count,
                  pid, xml, first_data, second_data, io, psStderr, answers,
                  outcome,
                  samples, trace >>

\* get_type(domain, xml): the type attribute, or LibvirtVmDataError
get_type(x) == [raised |-> x.type = "", type |-> x.type]

\* xml = BeautifulSoup(domain.XMLDesc()); vm[TAG_DEPLOY_ID] = domain.name();
\* vm[TAG_TYPE] = get_type(domain, xml); a libvirtError of XMLDesc is
\* caught nowhere
GetXml ==
  /\ pc = "XMLDesc"
  /\ UNCHANGED batching
  /\ UNCHANGED fresh
  /\ \E kind \in XmlKinds \cup {"libvirtError"} :
       LET x == XMLDesc(Domain, kind) IN
         IF kind = "libvirtError"
           THEN /\ Uncaught(kind)
                /\ UNCHANGED << idx, count, locals, out, outcome >>
         ELSE IF get_type(x).raised
           THEN ReturnFalse("data_error")
           ELSE /\ xml' = x
                /\ vm' = (TAG_DEPLOY_ID :> DomainName(Domain))
                         @@ (TAG_TYPE :> get_type(x).type) @@ vm
                /\ pc' = "net_first"
                /\ UNCHANGED << idx, count, pid, first_data, second_data, out,
                                ending, outcome >>
  /\ UNCHANGED << startup, cycle, now, domains, pslocals, pids, flushes,
                  psStderr, answers, sampled, samples, trace >>

(* ------------------------ the counter samplers ------------------------ *)

\* get_network_data(interfaces, domain) at time t, from interface i on: an
\* interface without target dev (0) raises LibvirtVmDataError, and so does
\* the libvirtError of a statistics read (the read of interface failAt)
RECURSIVE get_network_data(_, _, _, _, _, _, _)
get_network_data(interfaces, d, t, failAt, i, netrx, nettx) ==
  IF i > Len(interfaces)
    THEN [raised |-> FALSE, data |-> << netrx, nettx >>, nread |-> i - 1]
  ELSE IF interfaces[i] = 0 \/ failAt = i
    THEN [raised |-> TRUE, data |-> << >>, nread |-> i - 1]
  ELSE get_network_data(interfaces, d, t, failAt, i + 1,
         netrx + At(interfaceStats(d, interfaces[i], t), 0),
         nettx + At(interfaceStats(d, interfaces[i], t), 4))

\* get_disk_data(disks, domain) at time t, from disk k on
RECURSIVE get_disk_data(_, _, _, _, _, _, _, _, _)
get_disk_data(disks, d, t, failAt, k, read_reqs, write_reqs, read_bytes, write_bytes) ==
  IF k > Len(disks)
    THEN [raised |-> FALSE,
          data |-> << read_reqs, write_reqs, read_bytes, write_bytes >>,
          nread |-> k - 1]
  ELSE IF disks[k] = 0 \/ failAt = k
    THEN [raised |-> TRUE, data |-> << >>, nread |-> k - 1]
  ELSE get_disk_data(disks, d, t, failAt, k + 1,
         read_reqs + At(blockStats(d, disks[k], t), 0),
         write_reqs + At(blockStats(d, disks[k], t), 1),
         read_bytes + At(blockStats(d, disks[k], t), 2),
         write_bytes + At(blockStats(d, disks[k], t), 3))

\* get_per_sec_data(first_data, second_data): zip pairs the two snapshots,
\* each difference is divided by DATA_RETRIEVAL_WAIT
get_per_sec_data(first, second) ==
  [i \in 1..Min(Len(first), Len(second)) |->
     Rat((second[i] - first[i]) * WaitDen, WaitNum)]

\* the dict get_network_traffic returns
network_traffic(first, second) ==
  LET data_per_sec == get_per_sec_data(first, second) IN
    (FIELDS.net_rx :> IntVal(At(second, 0)))
    @@ (FIELDS.net_tx :> IntVal(At(second, 1)))
    @@ (FIELDS.net_current_rx :> At(data_per_sec, 0))
    @@ (FIELDS.net_current_tx :> At(data_per_sec, 1))

\* the dict get_disk_io returns
disk_io(first, second) ==
  LET data_per_sec == get_per_sec_data(first, second) IN
    (FIELDS.disk_read_reqs :> IntVal(At(second, 0)))
    @@ (FIELDS.disk_write_reqs :> IntVal(At(second, 1)))
    @@ (FIELDS.disk_total_reqs :> IntVal(At(second, 0) + At(second, 1)))
    @@ (FIELDS.disk_read_bytes :> IntVal(At(second, 2)))
    @@ (FIELDS.disk_write_bytes :> IntVal(At(second, 3)))
    @@ (FIELDS.disk_total_bytes :> IntVal(At(second, 2) + At(second, 3)))
    @@ (FIELDS.disk_current_read_reqs :> At(data_per_sec, 0))
    @@ (FIELDS.disk_current_write_reqs :> At(data_per_sec, 1))
    @@ (FIELDS.disk_current_total_reqs :>
          RatAdd(At(data_per_sec, 0), At(data_per_sec, 1)))
    @@ (FIELDS.disk_current_read_bytes :> At(data_per_sec, 2))
    @@ (FIELDS.disk_current_write_bytes :> At(data_per_sec, 3))
    @@ (FIELDS.disk_current_total_bytes :>
          RatAdd(At(data_per_sec, 2), At(data_per_sec, 3)))

\* what the hypervisor answered to the reads of one snapshot
Snapshot(ev, raw) == [ev |-> ev, at |-> now, raw |-> raw]
Slept == [ev |-> "sleep", at |-> now, raw |-> << >>]

\* one call of get_network_data from get_network_traffic
NetSnapshot(here, next) ==
  /\ pc = here
  /\ UNCHANGED batching
  /\ UNCHANGED fresh
  /\ \E failAt \in 0..NumIfaces :
       LET r == get_network_data(xml.interfaces, Domain, now, failAt, 1, 0, 0)
           ifstats(j) == interfaceStats(Domain, xml.interfaces[j], now)
       IN /\ sampled' = IF r.nread > 0 \/ failAt = 1
                          THEN Read("interfaceStats") ELSE sampled
          /\ IF r.raised
               THEN ReturnFalse("data_error") /\ UNCHANGED samples
               ELSE /\ IF here = "net_first"
                         THEN first_data' = r.data /\ UNCHANGED << second_data, vm >>
                         ELSE /\ second_data' = r.data
                              /\ vm' = network_traffic(first_data, r.data) @@ vm
                              /\ UNCHANGED first_data
                    /\ samples' =
                         Append(samples,
                                Snapshot("interfaceStats",
                                         [j \in 1..r.nread |-> ifstats(j)]))
                    /\ pc' = next
                    /\ UNCHANGED << idx, count, pid, xml, out, ending, outcome >>
  /\ UNCHANGED << startup, cycle, now, domains, pslocals, pids, flushes,
                  psStderr, answers, trace >>

\* first_data = get_network_data(interfaces, domain)
NetFirst == NetSnapshot("net_first", "net_sleep")

\* second_data = get_network_data(interfaces, domain), and the returned dict
NetSecond == NetSnapshot("net_second", "disk_first")

\* time.sleep(DATA_RETRIEVAL_WAIT) between the two snapshots
Wait(here, next) ==
  /\ pc = here
  /\ UNCHANGED batching
  /\ UNCHANGED fresh
  /\ now' = Tick(now)
  /\ samples' = Append(samples, Slept)
  /\ pc' = next
  /\ UNCHANGED << startup, cycle, domains, pslocals, pids, idx, count, locals,
                  io, ending, psStderr, answers, outcome, sampled, trace >>

NetSleep == Wait("net_sleep", "net_second")

\* one call of get_disk_data from get_disk_io
DiskSnapshot(here, next) ==
  /\ pc = here
  /\ UNCHANGED batching
  /\ UNCHANGED fresh
  /\ \E failAt \in 0..NumDisks :
       LET r == get_disk_data(xml.disks, Domain, now, failAt, 1, 0, 0, 0, 0)
           blkstats(j) == blockStats(Domain, xml.disks[j], now)
       IN /\ sampled' = IF r.nread > 0 \/ failAt = 1
                          THEN Read("blockStats") ELSE sampled
          /\ IF r.raised
               THEN ReturnFalse("data_error") /\ UNCHANGED samples
               ELSE /\ IF here = "disk_first"
                         THEN first_data' = r.data /\ UNCHANGED << second_data, vm >>
                         ELSE /\ second_data' = r.data
                              /\ vm' = disk_io(first_data, r.data) @@ vm
                              /\ UNCHANGED first_data
                    /\ samples' =
                         Append(samples,
                                Snapshot("blockStats",
                                         [j \in 1..r.nread |-> blkstats(j)]))
                    /\ pc' = next
                    /\ UNCHANGED << idx, count, pid, xml, out, ending, outcome >>
  /\ UNCHANGED << startup, cycle, now, domains, pslocals, pids, flushes,
                  psStderr, answers, trace >>

DiskFirst == DiskSnapshot("disk_first", "disk_sleep")

DiskSleep == Wait("disk_sleep", "disk_second")

DiskSecond == DiskSnapshot("disk_second", "print_vm")

(* ----------------------------- the output ----------------------------- *)

\* one printed line: "<metric> <timestamp> <value> <key>=<value> ..."
Line(metric, ts, value, tags) ==
  [metric |-> metric, ts |-> ts, value |-> value, tags |-> tags]

\* the order in which a dict hands out its keys: some fixed order
KeyOrder ==
  << FIELDS.cpu_time, FIELDS.cpu_load, FIELDS.memory, FIELDS.max_memory,
     FIELDS.max_vcpus, TAG_DEPLOY_ID, TAG_TYPE, FIELDS.net_rx, FIELDS.net_tx,
     FIELDS.net_current_rx, FIELDS.net_current_tx, FIELDS.disk_read_reqs,
     FIELDS.disk_write_reqs, FIELDS.disk_total_reqs, FIELDS.disk_read_bytes,
     FIELDS.disk_write_bytes, FIELDS.disk_total_bytes,
     FIELDS.disk_current_read_reqs, FIELDS.disk_current_write_reqs,
     FIELDS.disk_current_total_reqs, FIELDS.disk_current_read_bytes,
     FIELDS.disk_current_write_bytes, FIELDS.disk_current_total_bytes >>

\* print_vm without the two pops: the tags stay among the keys
print_vm_tags_not_popped(v, t) ==
  LET InVm(key) == key \in DOMAIN v
      keys == SelectSeq(KeyOrder, InVm)
  IN [i \in 1..Len(keys) |->
        Line(keys[i], t, v[keys[i]],
             (TAG_DEPLOY_ID :> v[TAG_DEPLOY_ID]) @@ (TAG_TYPE :> v[TAG_TYPE]))]

\* print_vm(vm) at time t: pop the two tags, then one line per remaining key
print_vm(v, t) ==
  LET vm_name == v[TAG_DEPLOY_ID]
      vm_type == v[TAG_TYPE]
      InVm(key) == key \in DOMAIN v \ {TAG_DEPLOY_ID, TAG_TYPE}
      keys == SelectSeq(KeyOrder, InVm)
  IN [i \in 1..Len(keys) |->
        Line(keys[i], t, v[keys[i]],
             (TAG_DEPLOY_ID :> vm_name) @@ (TAG_TYPE :> vm_type))]

\* print_vm(vm); return True; and a main that forgets count += 1
PrintVm_uncounted ==
  /\ pc = "print_vm"
  /\ UNCHANGED batching
  /\ UNCHANGED fresh
  /\ out' = out \o print_vm(vm, now)
  /\ count' = count
  /\ outcome' = [outcome EXCEPT ![Domain] = "ok"]
  /\ idx' = idx + 1
  /\ pc' = NextDomain(idx + 1, domains)
  /\ pid' = 0
  /\ vm' = EmptyDict
  /\ xml' = NoXml
  /\ first_data' = << >>
  /\ second_data' = << >>
  /\ UNCHANGED << startup, cycle, now, domains, pslocals, pids, flushes,
                  ending, psStderr, answers, sampled, samples, trace >>

\* print_vm(vm); return True; and in main: count += 1
PrintVm ==
  /\ pc = "print_vm"
  /\ UNCHANGED batching
  /\ UNCHANGED fresh
  /\ out' = out \o print_vm(vm, now)
  /\ count' = count + 1
  /\ outcome' = [outcome EXCEPT ![Domain] = "ok"]
  /\ idx' = idx + 1
  /\ pc' = NextDomain(idx + 1, domains)
  /\ pid' = 0
  /\ vm' = EmptyDict
  /\ xml' = NoXml
  /\ first_data' = << >>
  /\ second_data' = << >>
  /\ UNCHANGED << startup, cycle, now, domains, pslocals, pids, flushes,
                  ending, psStderr, answers, sampled, samples, trace >>

\* print("%s %d %s" % (FIELDS["count"], int(time.time()), count))
Count ==
  /\ pc = "count"
  /\ UNCHANGED batching
  /\ UNCHANGED fresh
  /\ out' = Append(out, Line(FIELDS.count, now, IntVal(count), EmptyDict))
  /\ trace' = Append(trace, "count")
  /\ pc' = "flush"
  /\ UNCHANGED << startup, cycle, now, domains, pslocals, pids, idx, count,
                  locals, flushes, ending, psStderr, answers, outcome, sampled, samples >>

\* a pass that goes to sleep without flushing
Flush_forgotten ==
  /\ pc = "flush"
  /\ UNCHANGED batching
  /\ UNCHANGED fresh
  /\ pc' = "sleep"
  /\ UNCHANGED << startup, cycle, now, domains, pslocals, pids, idx, count,
                  locals, io, ending, observers >>

\* sys.stdout.flush()
Flush ==
  /\ pc = "flush"
  /\ UNCHANGED batching
  /\ UNCHANGED fresh
  /\ flushes' = flushes + 1
  /\ trace' = Append(trace, "flush")
  /\ pc' = "sleep"
  /\ UNCHANGED << startup, cycle, now, domains, pslocals, pids, idx, count,
                  locals, out, ending, psStderr, answers, outcome, sampled, samples >>

\* time.sleep(INTERVAL), and back to the head of the while loop: domains,
\* pids and count keep their values until lines 134 to 138 assign them anew.
\* The observers of the pass start afresh.
Sleep ==
  /\ pc = "sleep"
  /\ UNCHANGED batching
  /\ now' = Wake(now)
  /\ cycle' = cycle + 1
  /\ pc' = "list"
  /\ out' = << >>
  /\ psStderr' = FALSE
  /\ answers' = [d \in Domains |-> NotAsked]
  /\ outcome' = [d \in Domains |-> "none"]
  /\ sampled' = [d \in Domains |-> {}]
  /\ samples' = << >>
  /\ trace' = << >>
  /\ renewed' = {}
  /\ idx' = 0
  /\ UNCHANGED << startup, domains, pids, count, pslocals, locals, flushes,
                  ending, listed, resolved >>

(* -------------------------- the specification ------------------------- *)

Next ==
  \/ CheckImports
  \/ OpenReadOnly
  \/ ListAllDomains
  \/ GetPids
  \/ GetPidsReturn
  \/ ProcessDomain
  \/ GetCpuTime
  \/ GetCpuLoad
  \/ GetMemory
  \/ GetXml
  \/ NetFirst
  \/ NetSleep
  \/ NetSecond
  \/ DiskFirst
  \/ DiskSleep
  \/ DiskSecond
  \/ PrintVm
  \/ Count
  \/ Flush
  \/ Sleep

Spec == Init /\ [][Next]_vars

(* ------------- the batch variant (collectors/0/libvirt.py) ------------ *)

BATCH_SIZE == 20

\* longest list of any content, and largest size besides BATCH_SIZE, that
\* chunker is applied to; lists of numbered domains go up to one domain more
\* than MaxBatches full batches
MaxSeqLen == 4
MaxSize == 3
MaxBatches == 2

\* the numbered domains 1, 2, ..., n as the hypervisor lists them
Listed(n) == [i \in 1..n |-> i]

\* seq[lo:hi] of a Python list, for 0 <= lo <= hi: the end is clipped
slice(s, lo, hi) == SubSeq(s, lo + 1, Min(hi, Len(s)))

\* a slice that starts one element late
chunk_off_by_one(s, p, n) == slice(s, p + 1, p + n)

\* seq[pos:pos + size]
chunk(s, p, n) == slice(s, p, p + n)

\* the generator (... for pos in xrange(0, len(seq), size)): xrange has no
\* further position, and next() raises StopIteration
Exhausted == pos >= Len(seq)

\* next() of the generator: the slice at pos, and xrange moves on by size
Yield ==
  /\ ~Exhausted
  /\ batch' = chunk(seq, pos, size)
  /\ yielded' = Append(yielded, chunk(seq, pos, size))
  /\ pos' = pos + size
  /\ UNCHANGED << seq, size >>

\* the lists and sizes chunker is applied to
ChunkerSeqs ==
  UNION {[1..n -> Domains] : n \in 0..MaxSeqLen}
    \cup {Listed(n) : n \in 0..(MaxBatches * BATCH_SIZE + 1)}
ChunkerSizes == 1..MaxSize \cup {BATCH_SIZE}

\* the modules libvirt.py imports (it does not guard its imports)
Imported == [libvirt |-> TRUE, bs4 |-> TRUE, psutil |-> TRUE]

\* batches = chunker(seq, size), about to be iterated
ChunkerInit ==
  /\ pc = "chunker"
  /\ mods = Imported
  /\ Unstarted
  /\ seq \in ChunkerSeqs
  /\ size \in ChunkerSizes
  /\ NoBatch

\* for batch in chunker(seq, size): the next batch
ChunkerNext ==
  /\ pc = "chunker"
  /\ Yield
  /\ UNCHANGED << pc, mods, conn, cycle, now, domains, pslocals, pids, idx,
                  count, locals, io, ending, observers, fresh, vms, passed >>

\* for batch in chunker(seq, size): StopIteration ends the loop
ChunkerStop ==
  /\ pc = "chunker"
  /\ Exhausted
  /\ pc' = "exhausted"
  /\ UNCHANGED << mods, conn, cycle, now, domains, pslocals, pids, idx,
                  count, locals, io, ending, observers, fresh, batching >>

ChunkerStep ==
  \/ ChunkerNext
  \/ ChunkerStop

ChunkerSpec == ChunkerInit /\ [][ChunkerStep]_vars

(* ------------------- main of collectors/0/libvirt.py ------------------ *)

\* libvirt.py is followed as it is written, statement by statement.  Four
\* of its lines are not Python (`!` on lines 77 and 93, `&&` on line 122, a
\* closing parenthesis too many on line 96); they are read as `not`, `and`
\* and without the parenthesis, the only reading there is.

\* the names bound at module level (lines 17 to 52, 54, 99, 102 and 115)
Globals ==
  {"sys", "time", "libvirt", "os", "collections", "utils", "BeautifulSoup",
   "INTERVAL", "FIELDS", "STATES", "TAG_DEPLOY_ID", "TAG_TYPE", "BATCH_SIZE",
   "PID_DIR", "LIBVIRT_URI", "LibvirtCollectorError", "main", "chunker",
   "get_memory", "get_network_traffic"}

\* the variables of the libvirt_vm collector that libvirt.py has no use for
collector_only ==
  << mods, cycle, now, pslocals, count, pid, xml, first_data, second_data,
     io, observers, fresh >>

\* conn = libvirt.openReadOnly(LIBVIRT_URI); if conn is None: return 13
BatchOpen ==
  /\ pc = "batch_open"
  /\ \E answer \in {"conn", "none", "libvirtError"} :
       IF answer = "libvirtError"
         THEN Uncaught("libvirtError") /\ UNCHANGED conn
         ELSE /\ conn' = answer
              /\ IF answer = "none"
                   THEN pc' = "returned" /\ retval' = 13 /\ UNCHANGED uncaught
                   ELSE pc' = "batch_list" /\ UNCHANGED ending
  /\ UNCHANGED << collector_only, domains, pids, idx, vm, batching >>

\* domains = conn.listAllDomains(); batches = chunker(domains, BATCH_SIZE):
\* the generator is made, nothing is sliced yet
BatchList ==
  /\ pc = "batch_list"
  /\ \/ /\ \E n \in 0..(MaxBatches * BATCH_SIZE + 1) : domains' = Listed(n)
        /\ seq' = domains'
        /\ size' = BATCH_SIZE
        /\ pos' = 0
        /\ pc' = "for_batch"
        /\ UNCHANGED ending
     \/ /\ Uncaught("libvirtError")
        /\ UNCHANGED << domains, seq, size, pos >>
  /\ UNCHANGED << collector_only, conn, pids, idx, vm, batch, vms, yielded,
                  passed >>

\* for batch in batches: vms = {}; after the last batch main falls off its
\* end and returns None
BatchNext ==
  /\ pc = "for_batch"
  /\ IF Exhausted
       THEN /\ pc' = "done"
            /\ UNCHANGED << batching, idx >>
       ELSE /\ Yield
            /\ vms' = EmptyDict
            /\ idx' = 1
            /\ passed' = {}
            /\ pc' = "for_domain"
  /\ UNCHANGED << collector_only, conn, domains, pids, vm, ending >>

\* how the body of `for domain in batch` (lines 66 to 91) ends, given what
\* the hypervisor answers to the reads of get_memory and get_network_traffic.
\* Line 69 calls get_memory and then looks up FIELD, a name that is bound
\* nowhere: NameError, which the except clause of line 71 does not catch.
\* Were it bound, line 75 would apply "%s/%s.pid" to PID_DIR alone:
\* TypeError.  No path reaches the pid file and line 91.
for_domain_body(sampling) ==
  IF sampling = "LibvirtCollectorError" THEN "continue"
  ELSE IF sampling = "libvirtError" THEN "libvirtError"
  ELSE IF "FIELD" \notin Globals THEN "NameError"
  ELSE "TypeError"

\* the pid that the pid file of domain d holds
PidFilePid(d) == QemuPid(d)

\* one pass of `for domain in batch`
BatchDomain ==
  /\ pc = "for_domain"
  /\ idx <= Len(batch)
  /\ \E sampling \in {"ok", "LibvirtCollectorError", "libvirtError"},
        pidfile \in {"present", "missing", "unreadable"} :
       LET how == for_domain_body(sampling) IN
         /\ passed' = IF sampling = "ok" /\ pidfile = "present"
                        THEN passed \cup {batch[idx]} ELSE passed
         /\ IF how = "continue"
              THEN /\ idx' = idx + 1
                   /\ UNCHANGED << pc, ending >>
              ELSE /\ Uncaught(how)
                   /\ UNCHANGED idx
  /\ vm' = ("name" :> DomainName(batch[idx]))
  /\ UNCHANGED << collector_only, conn, domains, pids, seq, size, pos, batch,
                  vms, yielded >>

\* after the last domain of the batch: if not vms: continue; else line 96
\* hands the bound method vms.items, which is not iterable, to sorted()
BatchEnd ==
  /\ pc = "for_domain"
  /\ idx > Len(batch)
  /\ IF vms = EmptyDict
       THEN pc' = "for_batch" /\ UNCHANGED ending
       ELSE Uncaught("TypeError")
  /\ UNCHANGED << collector_only, conn, domains, pids, idx, vm, batching >>

BatchInit ==
  /\ pc = "batch_open"
  /\ mods = Imported
  /\ Unstarted
  /\ seq = << >>
  /\ size = 0
  /\ NoBatch

BatchStep ==
  \/ BatchOpen
  \/ BatchList
  \/ BatchNext
  \/ BatchDomain
  \/ BatchEnd

BatchSpec == BatchInit /\ [][BatchStep]_vars

(* ------------------------- reading the output ------------------------- *)

\* the lines of this pass that carry domain d's deploy_id
DomainLines(d) ==
  LET OfDomain(l) == l.metric # FIELDS.count
                       /\ l.tags[TAG_DEPLOY_ID] = DomainName(d)
  IN SelectSeq(out, OfDomain)

\* the value printed for domain d under a metric
Emitted(d, metric) ==
  LET OfMetric(l) == l.metric = metric IN SelectSeq(DomainLines(d), OfMetric)[1].value

\* the number of lines of a full record: every key of vm but the two tags
FullRecord == Len(KeyOrder) - 2

\* the sum over the devices of field f of the hypervisor's answers
RECURSIVE SumField(_, _)
SumField(raw, f) ==
  IF raw = << >> THEN 0 ELSE At(Head(raw), f) + SumField(Tail(raw), f)

\* a record has just been printed: `samples` holds the hypervisor's answers
\* to the two network and the two disk snapshots it was made from
JustPrinted ==
  /\ pc # "print_vm"
  /\ idx - 1 \in 1..Len(domains)
  /\ outcome[domains[idx - 1]] = "ok"
  /\ Len(samples) = 6
Printed == domains[idx - 1]

\* main has ended
Ended == pc \in {"returned", "raised"}

IsPrefix(s, t) == Len(s) <= Len(t) /\ \A i \in 1..Len(s) : s[i] = t[i]

\* the steps of one finished pass over the enumerated domains
ExpectedTrace ==
  << "enumerate", "ps" >> \o [i \in 1..Len(domains) |-> "domain"]
    \o << "count", "flush" >>

(* ------------------------------ claims -------------------------------- *)

\* C1: a domain whose isActive() is not 1 is left by process_domain before
\* any counter is read, and no line of the pass carries its deploy_id.
C1_InactiveDomainContributesNothing ==
  \A d \in Domains :
    (answers[d] # NotAsked /\ answers[d].active # 1) =>
      /\ outcome[d] = "inactive"
      /\ sampled[d] = {}
      /\ DomainLines(d) = << >>

\* a pass has ended in which one domain was inactive and the other printed
C1_Witness ==
  /\ pc = "sleep"
  /\ \E d, e \in Domains : answers[d].active = 0 /\ outcome[e] = "ok"

\* C2: for each of rx, tx, read requests, write requests, read bytes and
\* write bytes, snapshot A is read, the wait elapses, snapshot B is read; the
\* total printed is B summed over the devices and the current value printed
\* is (B - A) / DATA_RETRIEVAL_WAIT of those sums.
C2_TotalsAndRatesOfEveryCounter ==
  JustPrinted =>
    LET netA == samples[1]
        netB == samples[3]
        diskA == samples[4]
        diskB == samples[6]
        Total(metric, B, f) ==
          Emitted(Printed, metric) = IntVal(SumField(B.raw, f))
        Current(metric, A, B, f) ==
          RatEq(Emitted(Printed, metric),
                Rat((SumField(B.raw, f) - SumField(A.raw, f)) * WaitDen, WaitNum))
    IN /\ [i \in 1..6 |-> samples[i].ev] =
            << "interfaceStats", "sleep", "interfaceStats",
               "blockStats", "sleep", "blockStats" >>
       /\ Total(FIELDS.net_rx, netB, 0)
       /\ Total(FIELDS.net_tx, netB, 4)
       /\ Current(FIELDS.net_current_rx, netA, netB, 0)
       /\ Current(FIELDS.net_current_tx, netA, netB, 4)
       /\ Total(FIELDS.disk_read_reqs, diskB, 0)
       /\ Total(FIELDS.disk_read_bytes, diskB, 1)
       /\ Total(FIELDS.disk_write_reqs, diskB, 2)
       /\ Total(FIELDS.disk_write_bytes, diskB, 3)
       /\ Current(FIELDS.disk_current_read_reqs, diskA, diskB, 0)
       /\ Current(FIELDS.disk_current_read_bytes, diskA, diskB, 1)
       /\ Current(FIELDS.disk_current_write_reqs, diskA, diskB, 2)
       /\ Current(FIELDS.disk_current_write_bytes, diskA, diskB, 3)

\* C3: every disk metric reports the counter of its name, the hypervisor's
\* tuple being (rd_req, rd_bytes, wr_req, wr_bytes): disk.read.requests is
\* the sum of rd_req, disk.read.bytes of rd_bytes, disk.write.requests of
\* wr_req and disk.write.bytes of wr_bytes.
C3_DiskMetricsReportTheirCounter ==
  JustPrinted =>
    LET B == samples[6].raw IN
      /\ Emitted(Printed, FIELDS.disk_read_reqs) = IntVal(SumField(B, 0))
      /\ Emitted(Printed, FIELDS.disk_read_bytes) = IntVal(SumField(B, 1))
      /\ Emitted(Printed, FIELDS.disk_write_reqs) = IntVal(SumField(B, 2))
      /\ Emitted(Printed, FIELDS.disk_write_bytes) = IntVal(SumField(B, 3))

\* C4: a domain prints all of its record or nothing; a domain with a missing
\* descriptor field or a failed statistics read prints nothing,
\* process_domain returns False for it and main goes on with the other
\* domains of the pass: no such failure ends main.
C4_FailuresAreContained ==
  /\ \A d \in Domains : Len(DomainLines(d)) \in {0, FullRecord}
  /\ \A i \in 1..Len(domains) :
       outcome[domains[i]] = "data_error" =>
         DomainLines(domains[i]) = << >> /\ i < idx
  /\ ~(pc = "raised" /\ trace # << >> /\ trace[Len(trace)] = "domain")

\* C5: a ps that writes to stderr ends main with code 13, and so does a
\* listing with a line that has a uuid and a leading token that is no
\* integer: get_pids returns only listings without such a line.
C5_PsFailureIsFatal ==
  /\ psStderr => pc = "returned" /\ retval = ERROR_CODE_DONT_RETRY
  /\ pc = "get_pids_return" =>
       \A i \in 1..Len(output) : output[i].uuid # NoUuid => output[i].isInt

\* C6: with a module missing, or no connection, main returns 13 and has
\* never entered the loop, enumerated a domain or printed a line.
C6_StartupFailureIsFatalAndSilent ==
  (~mods.libvirt \/ ~mods.bs4 \/ ~mods.psutil \/ conn = "none") =>
    /\ pc \in {"check_imports", "returned"}
    /\ pc = "returned" => retval = ERROR_CODE_DONT_RETRY
    /\ uncaught = ""
    /\ cycle = 0 /\ trace = << >> /\ domains = << >>
    /\ out = << >> /\ flushes = 0

\* main has returned 13 because openReadOnly answered None
C6_Witness ==
  pc = "returned" /\ conn = "none" /\ retval = ERROR_CODE_DONT_RETRY

\* C7: once in the loop, main ends only by returning the code 13.
C7_LoopEndsOnlyWithDontRetry ==
  (conn = "conn" /\ Ended) =>
    pc = "returned" /\ retval = ERROR_CODE_DONT_RETRY /\ uncaught = ""

\* C8: a pass goes enumerate, ps, every domain, count line, flush, sleep;
\* the only flush of a pass follows its last line, which is the count line,
\* and a pass is enumerated only when every earlier pass has flushed and slept.
C8_PassOrder ==
  /\ IsPrefix(trace, ExpectedTrace)
  /\ pc = "flush" =>
       /\ trace = SubSeq(ExpectedTrace, 1, Len(ExpectedTrace) - 1)
       /\ out[Len(out)].metric = FIELDS.count
  /\ pc = "sleep" =>
       /\ trace = ExpectedTrace
       /\ out[Len(out)].metric = FIELDS.count
       /\ flushes = cycle + 1
  /\ pc # "sleep" => flushes = cycle

\* the second pass has flushed, with one domain printed and one skipped
C8_Witness ==
  pc = "sleep" /\ cycle = 1 /\ Len(domains) = 2 /\ count = 1

\* C9: an active domain without an entry in pids, or whose pid is gone when
\* checked, is skipped: nothing is read, nothing printed, and main goes on
\* past it; at the count line every enumerated domain has been processed.
C9_UnresolvedPidSkipsOnlyThatDomain ==
  /\ \A i \in 1..Len(domains) :
       LET d == domains[i] IN
         (answers[d].active = 1
            /\ (UUIDString(d) \notin DOMAIN pids \/ ~answers[d].exists)) =>
           /\ outcome[d] \in {"no_pid", "pid_gone"}
           /\ sampled[d] = {}
           /\ DomainLines(d) = << >>
           /\ i < idx
  /\ pc \in {"flush", "sleep"} =>
       /\ \A i \in 1..Len(domains) : answers[domains[i]] # NotAsked
       /\ out[Len(out)].metric = FIELDS.count

\* a pass has flushed whose first domain had no pid and whose second printed
C9_Witness ==
  /\ pc = "sleep"
  /\ Len(domains) = 2
  /\ outcome[domains[1]] = "no_pid"
  /\ outcome[domains[2]] = "ok"

\* C10: the cpu.load and cpu.time printed for a domain are those of the
\* process that pids holds for the domain's own uuid, a process whose ps
\* line carries that uuid, in whatever order the domains are processed.
C10_LoadOfTheDomainsOwnProcess ==
  \A j \in 1..Len(out) :
    out[j].metric \in {FIELDS.cpu_load, FIELDS.cpu_time} =>
      \E d \in Domains :
        /\ out[j].tags[TAG_DEPLOY_ID] = DomainName(d)
        /\ UUIDString(d) \in DOMAIN pids
        /\ LET p == pids[UUIDString(d)] IN
             /\ PsLine(TRUE, p, UUIDString(d)) \in PsLines
             /\ out[j].metric = FIELDS.cpu_load =>
                  out[j].value = IntVal(cpu_percent(p))
             /\ out[j].metric = FIELDS.cpu_time =>
                  \E t \in 0..(MaxCycles * Span) :
                    out[j].value = IntVal(At(cpu_times(p, t), 0)
                                            + At(cpu_times(p, t), 1))

\* both domains have printed, the second one first
C10_Witness ==
  /\ pc = "sleep"
  /\ Len(domains) = 2
  /\ domains[1] > domains[2]
  /\ outcome[domains[1]] = "ok"
  /\ outcome[domains[2]] = "ok"

\* the value of the count line that ends the output of this pass
CountLine == out[Len(out)]

\* the enumerated domains whose isActive() answered 1 in this pass
ActiveDomains == {d \in Domains : \E i \in 1..Len(domains) :
                                    domains[i] = d /\ answers[d].active = 1}

CollectedMetrics == {FIELDS[f] : f \in DOMAIN FIELDS} \ {FIELDS.count}

\* print_vm was the last step: the lines it printed end the output
PrintVmActed == JustPrinted /\ pc \in {"process_domain", "count"}
RecordLines == SubSeq(out, Len(out) - FullRecord + 1, Len(out))

\* C12: print_vm prints exactly one line for each collected metric; the
\* lines of one record carry one timestamp and one tag set, which is
\* deploy_id = the domain's name and type = the domain's virtualization
\* type; no line anywhere has a tag key as its metric.
C12_OneLinePerMetricSameTimestampAndTags ==
  /\ \A j \in 1..Len(out) : out[j].metric \notin {TAG_DEPLOY_ID, TAG_TYPE}
  /\ PrintVmActed =>
       /\ Len(out) >= FullRecord
       /\ {RecordLines[j].metric : j \in 1..FullRecord} = CollectedMetrics
       /\ \A i, j \in 1..FullRecord :
            /\ RecordLines[i].metric = RecordLines[j].metric => i = j
            /\ RecordLines[i].ts = RecordLines[j].ts
            /\ RecordLines[i].tags = RecordLines[j].tags
       /\ RecordLines[1].ts = now
       /\ DOMAIN RecordLines[1].tags = {TAG_DEPLOY_ID, TAG_TYPE}
       /\ RecordLines[1].tags[TAG_DEPLOY_ID] = DomainName(Printed)
       /\ RecordLines[1].tags[TAG_TYPE] = DomainType(Printed)

\* the second record of a pass has just been printed
C12_Witness ==
  PrintVmActed /\ count = 2 /\ Len(out) = 2 * FullRecord

\* the batches handed out so far, one after the other
RECURSIVE Concat(_)
Concat(ss) == IF ss = << >> THEN << >> ELSE Head(ss) \o Concat(Tail(ss))

\* C13: the batches of chunker(seq, size), concatenated in order, are seq;
\* no batch is empty or longer than size, every batch but the last has
\* exactly size elements, and an empty seq yields no batch.
C13_ChunkerPartitions ==
  /\ Concat(yielded) = SubSeq(seq, 1, Min(pos, Len(seq)))
  /\ \A i \in 1..Len(yielded) :
       /\ Len(yielded[i]) \in 1..size
       /\ i < Len(yielded) => Len(yielded[i]) = size
  /\ pc = "exhausted" =>
       /\ Concat(yielded) = seq
       /\ seq = << >> => yielded = << >>

\* a list of two full batches and one domain more has been split by
\* BATCH_SIZE into three batches
C13_Witness ==
  /\ pc = "exhausted"
  /\ size = BATCH_SIZE
  /\ Len(seq) = 2 * BATCH_SIZE + 1
  /\ Len(yielded) = 3
  /\ Len(yielded[3]) = 1

\* the batch is over: its last domain is behind, or main has ended in it
BatchOver ==
  \/ pc = "for_domain" /\ idx > Len(batch)
  \/ pc = "raised" /\ batch # << >>

\* C14: when a batch is over, the pid list built for it holds the pid of
\* every domain of the batch whose reads succeeded and whose pid file was
\* there, each once and in ascending order; with no such domain no list is
\* built.
C14_SortedPidListOfTheBatch ==
  BatchOver =>
    /\ \A d \in passed : \E i \in DOMAIN pids : pids[i] = PidFilePid(d)
    /\ \A i, j \in DOMAIN pids : i < j => pids[i] < pids[j]
    /\ passed = {} => pids = << >>

\* the lines of the listing that carry a uuid, and the last line of uuid u
UuidLines == {i \in 1..Len(output) : output[i].uuid # NoUuid}
LastLineOf(u) ==
  CHOOSE i \in UuidLines :
    output[i].uuid = u /\ \A j \in UuidLines : output[j].uuid = u => j <= i

\* C15: the dict get_pids returns has exactly the uuids of the listing's
\* lines as keys, each mapped to the integer leading token of the last line
\* that carries it; a line without uuid adds nothing.
C15_PidsOfTheListing ==
  pc = "get_pids_return" =>
    /\ DOMAIN pids = {output[i].uuid : i \in UuidLines}
    /\ \A u \in DOMAIN pids :
         /\ output[LastLineOf(u)].isInt
         /\ pids[u] = output[LastLineOf(u)].tok

\* get_pids returns for a listing in which a domain's qemu line is followed
\* by the line of another process with the same uuid
C15_Witness ==
  /\ pc = "get_pids_return"
  /\ Len(output) = 2
  /\ output[1] = PsLine(TRUE, QemuPid(1), UUIDString(1))
  /\ output[2] = PsLine(TRUE, OtherPid, UUIDString(1))
  /\ pids[UUIDString(1)] = OtherPid

\* where main is once the domains of the pass are listed, once get_pids has
\* filled pids, and while process_domain is at work
Listing == {"get_pids", "get_pids_return"}
Sampling ==
  {"process_domain", "get_cpu_time", "get_cpu_load", "get_memory", "XMLDesc",
   "net_first", "net_sleep", "net_second", "disk_first", "disk_sleep",
   "disk_second", "print_vm"}
Closing == {"count", "flush", "sleep"}

\* the times of the pass that is under way
ThisPass == (cycle * Span)..(cycle * Span + MaxNow)

\* C16: in every pass the domain list in use is the one listAllDomains()
\* answered in this pass and pids is what this pass's ps listing says; every
\* line of the pass carries a time of this pass, the cpu figures are those
\* of the pid this pass's listing gives the domain, the totals and rates are
\* made of the readings of this pass, and the count is the number of domains
\* printed in this pass.
C16_NothingSurvivesACycle ==
  /\ pc \in Listing \cup Sampling \cup Closing => domains = listed
  /\ pc \in {"get_pids_return"} \cup Sampling \cup Closing => pids = resolved
  /\ \A j \in 1..Len(out) : out[j].ts \in ThisPass
  /\ \A j \in 1..Len(out) :
       out[j].metric \in {FIELDS.cpu_load, FIELDS.cpu_time} =>
         \E d \in Domains :
           /\ out[j].tags[TAG_DEPLOY_ID] = DomainName(d)
           /\ UUIDString(d) \in DOMAIN resolved
           /\ out[j].metric = FIELDS.cpu_load =>
                out[j].value = IntVal(cpu_percent(resolved[UUIDString(d)]))
           /\ out[j].metric = FIELDS.cpu_time =>
                \E t \in ThisPass :
                  out[j].value =
                    IntVal(get_cpu_time(resolved[UUIDString(d)], t))
  /\ JustPrinted =>
       /\ \A i \in 1..6 : samples[i].at \in ThisPass
       /\ Emitted(Printed, FIELDS.net_rx) = IntVal(SumField(samples[3].raw, 0))
       /\ Emitted(Printed, FIELDS.net_tx) = IntVal(SumField(samples[3].raw, 4))
       /\ RatEq(Emitted(Printed, FIELDS.net_current_rx),
                Rat((SumField(samples[3].raw, 0) - SumField(samples[1].raw, 0))
                      * WaitDen, WaitNum))
       /\ \A metric \in {FIELDS.disk_read_reqs, FIELDS.disk_read_bytes,
                         FIELDS.disk_write_reqs, FIELDS.disk_write_bytes} :
            \E f \in 0..3 :
              Emitted(Printed, metric) = IntVal(SumField(samples[6].raw, f))
  /\ pc \in {"flush", "sleep"} =>
       CountLine.value = IntVal(Cardinality({d \in Domains : outcome[d] = "ok"}))

\* the second pass has ended; a domain whose pid is not the one of the
\* first pass was printed with the load of its new pid
C16_Witness ==
  /\ pc = "sleep"
  /\ cycle = 1
  /\ \E d \in Domains :
       /\ UUIDString(d) \in renewed
       /\ outcome[d] = "ok"
       /\ Emitted(d, FIELDS.cpu_load)
            = IntVal(cpu_percent(resolved[UUIDString(d)]))

\* the lines of the pass that are count lines
CountLines == {j \in 1..Len(out) : out[j].metric = FIELDS.count}

\* the enumerated domains with a full record among the lines of the pass
FullyPrinted ==
  {d \in Domains : /\ \E i \in 1..Len(domains) : domains[i] = d
                   /\ Len(DomainLines(d)) = FullRecord}

C18_FatalCycleEmittedNothing ==
  (pc = "returned" /\ conn = "conn") =>
    /\ retval = ERROR_CODE_DONT_RETRY
    /\ trace \in {<< "enumerate" >>, << "enumerate", "ps" >>}
    /\ \A d \in Domains :
         answers[d] = NotAsked /\ outcome[d] = "none" /\ sampled[d] = {}
    /\ out = << >>
    /\ flushes = cycle

\* get_pids has ended main in the second pass, after a first pass that was
\* flushed
C18_Witness ==
  /\ pc = "returned"
  /\ conn = "conn"
  /\ cycle = 1
  /\ flushes = 1

====
